---------------------------- MODULE Spec2Model ----------------------------
(***************************************************************************)
(* Model of bindings/rust/lib.rs of tree-sitter-tlaplus: the C-ABI shim    *)
(* (malloc, free, realloc, __assert_fail, iswspace, iswdigit, iswalnum)    *)
(* that the generated parser calls, and the language() accessor.           *)
(*                                                                         *)
(* Target: a 32-bit build (usize = 32 bits, align_of::<usize>() = 4), the  *)
(* width TLC's integers can hold.  The host allocator is std::alloc's      *)
(* default System allocator, which lib.rs calls through std::alloc::alloc, *)
(* dealloc and realloc.                                                    *)
(***************************************************************************)
EXTENDS Integers, Sequences, FiniteSets

VARIABLES
    heap,      \* host allocator: address -> block (live, size, align, bytes)
    owned,     \* per engine thread: the addresses it was handed and still holds
    last,      \* the last allocator-side step: function, calling thread, pointer returned
    status,    \* "running" | "aborted" (a panic in an extern "C" fn ends the process)
    stdout,    \* lines printed by __assert_fail, each a sequence of bytes
    hook,      \* the last __assert_fail invocation and how it ended
    wc,        \* the code point handed to a classifier
    wret,      \* the classifiers' answers for wc
    handles,   \* the Language handles language() has returned, in order
    parsers    \* per parser: set_language's result, the handle it loaded, its tree

vars == <<heap, owned, last, status, stdout, hook, wc, wret, handles, parsers>>

---------------------------------------------------------------------------
(* Bounds of the model *)

NumAddrs == 2
NumThreads == 2
HeapBytes == 4

(* Program constants of the 32-bit target *)

\* std::mem::align_of::<usize>()
ALIGN == 4
\* isize::MAX, the limit Layout::from_size_align checks the rounded size against
ISIZE_MAX == 2147483647

NULL == 0
Addrs == 1..NumAddrs
Threads == 1..NumThreads

Min(a, b) == IF a < b THEN a ELSE b

---------------------------------------------------------------------------
(* Character classifier *)

\* Variant: carriage return counted as whitespace too.
iswspace_cr(c) == IF c = 32 \/ c = 9 \/ c = 10 \/ c = 13 THEN 1 ELSE 0

\* ' ' = 32, '\t' = 9, '\n' = 10
iswspace(c) == IF c = 32 \/ c = 9 \/ c = 10 THEN 1 ELSE 0

\* Variant: the upper comparison strict.
iswdigit_strict(c) == IF (c >= 48) /\ (c < 57) THEN 1 ELSE 0

\* '0' = 48, '9' = 57
iswdigit(c) == IF (c >= 48) /\ (c <= 57) THEN 1 ELSE 0

\* Variant: the two letter ranges merged into 'A'..'z'.
iswalnum_merged(c) ==
    IF ((c >= 48) /\ (c <= 57)) \/ ((c >= 65) /\ (c <= 122)) THEN 1 ELSE 0

\* 'a' = 97, 'z' = 122, 'A' = 65, 'Z' = 90
iswalnum(c) ==
    IF ((c >= 48) /\ (c <= 57)) \/ ((c >= 97) /\ (c <= 122)) \/ ((c >= 65) /\ (c <= 90))
    THEN 1
    ELSE 0

---------------------------------------------------------------------------
(* Host allocator (std::alloc with the System allocator), as lib.rs calls it *)

Uninit == <<>>
\* the byte the parser engine stores at index i of a block (a known pattern)
Pattern(i) == <<(165 + i) % 256>>

FreeBlock == [live |-> FALSE, size |-> 0, align |-> 0, bytes |-> <<>>]
NewBlock(layout) ==
    [live |-> TRUE, size |-> layout.size, align |-> layout.align,
     bytes |-> [i \in 1..layout.size |-> Uninit]]

RECURSIVE SumSizes(_, _)
SumSizes(h, n) == IF n = 0 THEN 0 ELSE h[n].size + SumSizes(h, n - 1)
LiveBytes(h) == SumSizes(h, NumAddrs)
FreeAddrs(h) == {a \in Addrs : ~h[a].live}

\* Layout::from_size_align(size, align): Err when size, rounded up to align,
\* exceeds isize::MAX; the shim unwraps the result.
LayoutErr == [err |-> TRUE, size |-> 0, align |-> 0]
from_size_align(size, align) ==
    IF size > ISIZE_MAX - (align - 1)
    THEN LayoutErr
    ELSE [err |-> FALSE, size |-> size, align |-> align]

\* The layout a block was allocated (or last resized) with.
LayoutOf(h, ptr) == [err |-> FALSE, size |-> h[ptr].size, align |-> h[ptr].align]

\* Variant: the host hands out an address without looking whether it is free.
alloc_any(h, layout) ==
    LET fail == [ptr |-> NULL, heap |-> h]
        fresh == {[ptr |-> a, heap |-> [h EXCEPT ![a] = NewBlock(layout)]] : a \in Addrs}
    IN  IF layout.size = 0 THEN {fail} \cup fresh
        ELSE IF layout.size > HeapBytes - LiveBytes(h)
        THEN {fail}
        ELSE fresh

\* std::alloc::alloc(layout): the outcomes, each the pointer returned and the
\* heap after.  Null when the host is exhausted; a zero-size layout is
\* undefined for GlobalAlloc, and System (malloc(0)) answers null or a block.
alloc(h, layout) ==
    LET fail == [ptr |-> NULL, heap |-> h]
        fresh == {[ptr |-> a, heap |-> [h EXCEPT ![a] = NewBlock(layout)]] :
                      a \in FreeAddrs(h)}
    IN  IF layout.size = 0 THEN {fail} \cup fresh
        ELSE IF FreeAddrs(h) = {} \/ layout.size > HeapBytes - LiveBytes(h)
        THEN {fail}
        ELSE fresh

\* std::alloc::dealloc(ptr, layout): System hands ptr to the C library's free,
\* which does not read the layout.
dealloc(h, ptr, layout) == [h EXCEPT ![ptr] = FreeBlock]

\* The first n bytes of old, then uninitialised bytes up to size.
CopyPrefix(old, n, size) ==
    [i \in 1..size |-> IF i <= n /\ i <= Len(old) THEN old[i] ELSE Uninit]

\* The C library's realloc(ptr, new_size): keeps the bytes the block holds, in
\* place or moved; null, with the block untouched, when the host is exhausted.
sys_realloc(h, ptr, new_size) ==
    IF new_size - h[ptr].size > HeapBytes - LiveBytes(h)
    THEN {[ptr |-> NULL, heap |-> h]}
    ELSE {[ptr |-> b,
           heap |-> [dealloc(h, ptr, LayoutOf(h, ptr)) EXCEPT ![b] =
                        [live |-> TRUE, size |-> new_size, align |-> h[ptr].align,
                         bytes |-> CopyPrefix(h[ptr].bytes, h[ptr].size, new_size)]]] :
              b \in {ptr} \cup FreeAddrs(h)}

\* realloc_fallback: allocate the new layout, copy min(layout.size, new_size)
\* bytes, dealloc(ptr, layout).
realloc_fallback(h, ptr, layout, new_size) ==
    {IF r.ptr = NULL
     THEN r
     ELSE [ptr |-> r.ptr,
           heap |-> dealloc([r.heap EXCEPT ![r.ptr].bytes =
                                CopyPrefix(h[ptr].bytes, Min(layout.size, new_size), new_size)],
                            ptr, layout)] :
        r \in alloc(h, from_size_align(new_size, layout.align))}

\* std::alloc::realloc(ptr, layout, new_size): System resizes through the C
\* library when layout.align <= new_size (unix) or always (other hosts), and
\* through realloc_fallback otherwise.
std_realloc(h, ptr, layout, new_size) ==
    IF layout.align <= new_size
    THEN sys_realloc(h, ptr, new_size)
    ELSE sys_realloc(h, ptr, new_size) \cup realloc_fallback(h, ptr, layout, new_size)

---------------------------------------------------------------------------
(* Allocator shim *)

\* Sizes the engine asks for: those the heap can hold, the largest size
\* from_size_align accepts, and the smallest it rejects.
Sizes == (0..HeapBytes) \cup {ISIZE_MAX - (ALIGN - 1), ISIZE_MAX - (ALIGN - 1) + 1}

Rest == <<stdout, hook, wc, wret, handles, parsers>>

\* The layouts the shim builds (each is unwrapped: Err panics).
malloc_layout(size) == from_size_align(size, ALIGN)
free_layout == from_size_align(0, ALIGN)
realloc_old_layout == from_size_align(0, ALIGN)
realloc_new_layout(size) == from_size_align(size, ALIGN)

\* The record of a step: which function ran, on which thread, and the pointer
\* it returned (NULL also where the function returns nothing or never returned).
Returned(fn, t, ptr) == [fn |-> fn, thread |-> t, ret |-> ptr]

malloc(t, size) ==
    /\ status = "running"
    /\ LET layout == malloc_layout(size)
       IN  IF layout.err
           THEN /\ status' = "aborted"
                /\ last' = Returned("malloc", t, NULL)
                /\ UNCHANGED <<heap, owned>>
           ELSE \E r \in alloc(heap, layout) :
                /\ heap' = r.heap
                /\ owned' = IF r.ptr = NULL THEN owned
                            ELSE [owned EXCEPT ![t] = @ \cup {r.ptr}]
                /\ last' = Returned("malloc", t, r.ptr)
                /\ UNCHANGED status
    /\ UNCHANGED Rest

free(t, ptr) ==
    /\ status = "running"
    /\ ptr \in owned[t]
    /\ LET layout == free_layout
       IN  /\ heap' = dealloc(heap, ptr, layout)
           /\ owned' = [owned EXCEPT ![t] = @ \ {ptr}]
           /\ last' = Returned("free", t, NULL)
    /\ UNCHANGED status
    /\ UNCHANGED Rest

realloc(t, ptr, size) ==
    /\ status = "running"
    /\ ptr \in owned[t]
    /\ LET old_layout == realloc_old_layout
           new_layout == realloc_new_layout(size)
       IN  IF new_layout.err
           THEN /\ status' = "aborted"
                /\ last' = Returned("realloc", t, NULL)
                /\ UNCHANGED <<heap, owned>>
           ELSE \E r \in std_realloc(heap, ptr, old_layout, new_layout.size) :
                /\ heap' = r.heap
                /\ owned' = IF r.ptr = NULL THEN owned
                            ELSE [owned EXCEPT ![t] = (@ \ {ptr}) \cup {r.ptr}]
                /\ last' = Returned("realloc", t, r.ptr)
                /\ UNCHANGED status
    /\ UNCHANGED Rest

\* The parser engine fills a block it holds with its pattern.
store(t, ptr) ==
    /\ status = "running"
    /\ ptr \in owned[t]
    /\ heap[ptr].bytes # [i \in 1..heap[ptr].size |-> Pattern(i)]
    /\ heap' = [heap EXCEPT ![ptr].bytes = [i \in 1..heap[ptr].size |-> Pattern(i)]]
    /\ last' = Returned("store", t, NULL)
    /\ UNCHANGED <<owned, status>>
    /\ UNCHANGED Rest

AllocInit ==
    /\ heap = [a \in Addrs |-> FreeBlock]
    /\ owned = [t \in Threads |-> {}]
    /\ last = Returned("none", 0, NULL)
    /\ status = "running"

---------------------------------------------------------------------------
(* Diagnostic hook *)

MaxStrLen == 1
MaxLines == 2

\* Bytes of the C strings the engine passes (before the terminating NUL):
\* 'A', and the two bytes of U+00E9, each of which alone is not UTF-8.
StrBytes == {65, 195, 169}
CStrs == UNION {[1..n -> StrBytes] : n \in 0..MaxStrLen}
Lines == {0, 42}

InRange(b, lo, hi) == lo <= b /\ b <= hi
IsCont(s, i) == i <= Len(s) /\ InRange(s[i], 128, 191)

\* CStr::to_str: Ok iff the bytes from index i on are well-formed UTF-8.
RECURSIVE Utf8From(_, _)
Utf8From(s, i) ==
    IF i > Len(s) THEN TRUE
    ELSE LET b == s[i]
         IN  IF b < 128 THEN Utf8From(s, i + 1)
             ELSE IF InRange(b, 194, 223)
             THEN IsCont(s, i + 1) /\ Utf8From(s, i + 2)
             ELSE IF InRange(b, 224, 239)
             THEN /\ i + 1 <= Len(s)
                  /\ IF b = 224 THEN InRange(s[i + 1], 160, 191)
                     ELSE IF b = 237 THEN InRange(s[i + 1], 128, 159)
                     ELSE InRange(s[i + 1], 128, 191)
                  /\ IsCont(s, i + 2)
                  /\ Utf8From(s, i + 3)
             ELSE IF InRange(b, 240, 244)
             THEN /\ i + 1 <= Len(s)
                  /\ IF b = 240 THEN InRange(s[i + 1], 144, 191)
                     ELSE IF b = 244 THEN InRange(s[i + 1], 128, 143)
                     ELSE InRange(s[i + 1], 128, 191)
                  /\ IsCont(s, i + 2)
                  /\ IsCont(s, i + 3)
                  /\ Utf8From(s, i + 4)
             ELSE FALSE
to_str_ok(s) == Utf8From(s, 1)

\* {} of a u32: its decimal digits.
RECURSIVE Decimal(_)
Decimal(n) == IF n < 10 THEN <<48 + n>> ELSE Decimal(n \div 10) \o <<48 + (n % 10)>>

\* "Assertion failed: "
LitAssertion == <<65, 115, 115, 101, 114, 116, 105, 111, 110, 32, 102, 97, 105, 108, 101, 100, 58, 32>>
\* ", file: "
LitFile == <<44, 32, 102, 105, 108, 101, 58, 32>>
\* ", line: "
LitLine == <<44, 32, 108, 105, 110, 101, 58, 32>>
\* ", function: "
LitFunction == <<44, 32, 102, 117, 110, 99, 116, 105, 111, 110, 58, 32>>

\* The line println! writes once every to_str().unwrap() has succeeded.
Report(assertion, file, line, function) ==
    LitAssertion \o assertion \o LitFile \o file \o LitLine \o Decimal(line)
        \o LitFunction \o function

NoHook == [outcome |-> "none", assertion |-> <<>>, file |-> <<>>, line |-> 0, function |-> <<>>]

\* __assert_fail: the arguments of println! are evaluated before anything is
\* written; an unwrap of a decoding error panics, which ends the process.
\* Otherwise the line is printed and the function returns to the engine.
assert_fail(assertion, file, line, function) ==
    /\ status = "running"
    /\ Len(stdout) < MaxLines
    /\ LET h == [NoHook EXCEPT !.assertion = assertion, !.file = file,
                               !.line = line, !.function = function]
       IN  IF to_str_ok(assertion) /\ to_str_ok(file) /\ to_str_ok(function)
           THEN /\ stdout' = Append(stdout, Report(assertion, file, line, function))
                /\ hook' = [h EXCEPT !.outcome = "returned"]
                /\ UNCHANGED status
           ELSE /\ status' = "aborted"
                /\ hook' = [h EXCEPT !.outcome = "panicked"]
                /\ UNCHANGED stdout
    /\ UNCHANGED <<heap, owned, last, wc, wret, handles, parsers>>

HookInit ==
    /\ stdout = <<>>
    /\ hook = NoHook

---------------------------------------------------------------------------
(* Classifier calls *)

MaxWc == 127

\* Code points handed to the classifiers: ASCII, and values outside it
\* (no-break space, Arabic-Indic zero, em space, ideographic space,
\* fullwidth zero, U+10FFFF, the largest value of the model's integers).
CodePoints == (0..MaxWc) \cup {160, 1632, 8195, 12288, 65296, 1114111, 2147483647}

NotCalled == 0 - 1
NoAnswer == [space |-> NotCalled, digit |-> NotCalled, alnum |-> NotCalled]

call_iswspace ==
    /\ wret.space = NotCalled
    /\ wret' = [wret EXCEPT !.space = iswspace(wc)]
    /\ UNCHANGED <<heap, owned, last, status, stdout, hook, wc, handles, parsers>>

call_iswdigit ==
    /\ wret.digit = NotCalled
    /\ wret' = [wret EXCEPT !.digit = iswdigit(wc)]
    /\ UNCHANGED <<heap, owned, last, status, stdout, hook, wc, handles, parsers>>

call_iswalnum ==
    /\ wret.alnum = NotCalled
    /\ wret' = [wret EXCEPT !.alnum = iswalnum(wc)]
    /\ UNCHANGED <<heap, owned, last, status, stdout, hook, wc, handles, parsers>>

---------------------------------------------------------------------------
(* Language accessor *)

MaxHandles == 4
NumParsers == 2
Parsers == 1..NumParsers

\* extern "C" fn tree_sitter_tlaplus() -> Language: the handle to the
\* immutable static tables of the generated parser.
tree_sitter_tlaplus == [tables |-> "tree_sitter_tlaplus"]

\* Variant: only the first call returns the grammar's tables.
language_once ==
    IF handles = <<>> THEN tree_sitter_tlaplus ELSE [tables |-> "unset"]

\* language(): calls the entry point and returns what it returns.
language == tree_sitter_tlaplus

NoParser == [loaded |-> "none", from |-> 0, tree |-> "none"]

\* A host call of language(); the host keeps the handle.
get_language ==
    /\ Len(handles) < MaxHandles
    /\ handles' = Append(handles, language)
    /\ UNCHANGED <<heap, owned, last, status, stdout, hook, wc, wret, parsers>>

\* Parser::set_language(&handle), as in test_can_load_grammar: Ok iff the
\* handle refers to the grammar's tables.
set_language(p, k) ==
    /\ k \in 1..Len(handles)
    /\ parsers' = [parsers EXCEPT ![p] =
                      [loaded |-> IF handles[k] = tree_sitter_tlaplus THEN "ok" ELSE "err",
                       from |-> k, tree |-> "none"]]
    /\ UNCHANGED <<heap, owned, last, status, stdout, hook, wc, wret, handles>>

\* parser.parse(code, None) with a loaded language, as in the crate's example.
parse(p) ==
    /\ parsers[p].loaded = "ok"
    /\ parsers[p].tree = "none"
    /\ parsers' = [parsers EXCEPT ![p].tree = "no_error"]
    /\ UNCHANGED <<heap, owned, last, status, stdout, hook, wc, wret, handles>>

LangInit ==
    /\ handles = <<>>
    /\ parsers = [p \in Parsers |-> NoParser]

---------------------------------------------------------------------------
(* Specifications *)

\* The allocator shim under calls from independent engine threads.
Init ==
    /\ AllocInit
    /\ HookInit
    /\ LangInit
    /\ wc = 0
    /\ wret = NoAnswer

Next ==
    \/ \E t \in Threads, size \in Sizes : malloc(t, size)
    \/ \E t \in Threads, ptr \in Addrs : free(t, ptr)
    \/ \E t \in Threads, ptr \in Addrs, size \in Sizes : realloc(t, ptr, size)
    \/ \E t \in Threads, ptr \in Addrs : store(t, ptr)

Spec == Init /\ [][Next]_vars

\* The diagnostic hook, called by the engine on a failed assertion.
NextHook ==
    \E assertion \in CStrs, file \in CStrs, line \in Lines, function \in CStrs :
        assert_fail(assertion, file, line, function)

SpecHook == Init /\ [][NextHook]_vars

\* The classifiers, each applied to a code point drawn at the start.
InitClassify ==
    /\ AllocInit
    /\ HookInit
    /\ LangInit
    /\ wc \in CodePoints
    /\ wret = NoAnswer

NextClassify == call_iswspace \/ call_iswdigit \/ call_iswalnum

SpecClassify == InitClassify /\ [][NextClassify]_vars

\* The host obtaining handles and loading them into parsers.
NextLanguage ==
    \/ get_language
    \/ \E p \in Parsers, k \in 1..MaxHandles : set_language(p, k)
    \/ \E p \in Parsers : parse(p)

SpecLanguage == Init /\ [][NextLanguage]_vars

---------------------------------------------------------------------------
(* Properties: character classifier (SpecClassify) *)

\* C6: iswspace answers nonzero iff the code point is space, tab or newline,
\* and 0 for every other value, those outside ASCII included.
C6_iswspace ==
    wret.space # NotCalled => ((wret.space # 0) <=> (wc \in {32, 9, 10}))

C6_Witness == wc = 10 /\ wret.space = 1

\* C7: iswalnum answers nonzero iff the code point is a decimal digit or an
\* ASCII letter of either case; what iswdigit accepts, iswalnum accepts.
C7_iswalnum ==
    /\ wret.alnum # NotCalled =>
           ((wret.alnum # 0) <=> (wc \in (48..57) \cup (65..90) \cup (97..122)))
    /\ (wret.alnum # NotCalled /\ wret.digit # NotCalled /\ wret.digit # 0) =>
           wret.alnum # 0

C7_Witness == wc = 57 /\ wret.digit = 1 /\ wret.alnum = 1

\* C8: iswdigit answers nonzero iff '0' <= c <= '9', and 0 otherwise.
C8_iswdigit ==
    wret.digit # NotCalled => ((wret.digit # 0) <=> (48 <= wc /\ wc <= 57))

C8_Witness == wc = 57 /\ wret.digit = 1 /\ wret.alnum = NotCalled

---------------------------------------------------------------------------
(* Properties: allocator shim (Spec) *)

\* C1: the layout free hands to the host allocator for an address is the
\* layout that address was last allocated or resized with.
C1_ReleaseLayoutMatches ==
    [][\A t \in Threads, ptr \in Addrs :
          free(t, ptr) => free_layout = LayoutOf(heap, ptr)]_vars

\* The bytes below min(old size, new size) of the block realloc returned are
\* the bytes the old block held.
BytesPreserved(ptr, size) ==
    \A i \in 1..Min(heap[ptr].size, size) : heap'[last'.ret].bytes[i] = heap[ptr].bytes[i]

\* The call returned the address of a block of size bytes, live now.
ReturnedBlock(size) ==
    /\ last'.ret \in Addrs
    /\ heap'[last'.ret].live
    /\ heap'[last'.ret].size = size

\* C2: realloc on a live block returns the address of a live block of the new
\* size that holds the old block's bytes below min(old size, new size), and
\* the old region is released with its original size.  (Stated for the calls
\* that return a block; a call that returns none is the subject of C3.)
C2_ResizePreserves ==
    [][\A t \in Threads, ptr \in Addrs, size \in Sizes :
          (realloc(t, ptr, size) /\ last'.ret # NULL) =>
              /\ ReturnedBlock(size)
              /\ BytesPreserved(ptr, size)
              /\ realloc_old_layout = LayoutOf(heap, ptr)]_vars

\* The part of C2 about the bytes alone.
C2_ReturnedBlockKeepsBytes ==
    [][\A t \in Threads, ptr \in Addrs, size \in Sizes :
          (realloc(t, ptr, size) /\ last'.ret # NULL) => BytesPreserved(ptr, size)]_vars

\* C3: malloc and realloc never hand a failure value back: each call returns
\* the address of a live block of the size asked for, or the process ends.
C3_NeverReturnsNull ==
    [][\A t \in Threads, size \in Sizes :
          (malloc(t, size) \/ \E ptr \in Addrs : realloc(t, ptr, size)) =>
              (status' = "aborted" \/ ReturnedBlock(size))]_vars

\* No address is held by two threads, and every address held is a live block.
DistinctLive ==
    /\ \A t, u \in Threads : t # u => owned[t] \cap owned[u] = {}
    /\ \A t \in Threads : \A a \in owned[t] : heap[a].live

\* An address malloc returns was not live before the call.
FreshAddress ==
    (last'.fn = "malloc" /\ last'.ret # NULL) => ~heap[last'.ret].live

\* A step of one thread leaves what the other threads hold as it was: the
\* same addresses, each still live with the same size and bytes.
Isolation ==
    \A u \in Threads \ {last'.thread} :
        /\ owned'[u] = owned[u]
        /\ \A a \in owned[u] : heap'[a] = heap[a]

---------------------------------------------------------------------------
(* Properties: diagnostic hook (SpecHook) *)

\* "Assertion failed"
AssertionFailed == SubSeq(LitAssertion, 1, 16)

Contains(s, sub) ==
    \E i \in 0..(Len(s) - Len(sub)) : SubSeq(s, i + 1, i + Len(sub)) = sub

Printed == stdout # <<>> /\ Contains(stdout[Len(stdout)], AssertionFailed)

\* C4: for every input, strings that are not valid text included,
\* __assert_fail completes without panicking and prints a report that
\* contains "Assertion failed".
C4_HookNeverPanics ==
    hook.outcome # "none" => (hook.outcome = "returned" /\ status = "running" /\ Printed)

\* C5: every invocation of __assert_fail prints a diagnostic and then ends
\* the process; control never returns to the parser engine.
C5_HookIsFatal ==
    hook.outcome # "none" => (Printed /\ status = "aborted" /\ hook.outcome # "returned")

---------------------------------------------------------------------------
(* Properties: language accessor (SpecLanguage) *)

===========================================================================
